---- MODULE Spec2Model ----
(***************************************************************************)
(* Theatre booking service: the catalog, the scheduling store              *)
(* (Performance), the seat inventory (Ticket) and the reservation          *)
(* transaction (ReservationSerializer.create), with the clock the time     *)
(* guards read.                                                            *)
(*                                                                         *)
(* Time is counted in minutes.  Every HTTP handler is one atomic step,     *)
(* except reservation creation, which is two: the reads done before the    *)
(* transaction opens (ReservationRead) and the transaction.atomic() block  *)
(* (ReservationCommit); other requests and clock ticks interleave between  *)
(* the two.  The block is one step because it either commits as a whole or *)
(* rolls back as a whole.  A handler leaves its outcome in resp, and the   *)
(* next request is taken once that response has gone out (Respond).        *)
(*                                                                         *)
(* Five specifications share the actions.  SpecSchedule runs the           *)
(* performance endpoints from the empty store.  The others start from a    *)
(* schedule of two performances that SpecSchedule reaches: Spec runs the   *)
(* ticket and reservation endpoints with two clients booking at once,      *)
(* SpecHall runs them with one booking client while the staff moves the    *)
(* performances between halls, SpecCancel starts from a reservation that   *)
(* Spec reaches and adds the deletes and the lists, and SpecCatalog runs   *)
(* the catalog endpoints next to the performance endpoints.                *)
(***************************************************************************)
EXTENDS Integers, FiniteSets, Sequences, TLC

\* ---------------------------------------------------------------- bounds
MaxTime == 2
MaxPerformances == 2
MaxTickets == 2
MaxReservations == 2
MaxCatalog == 3

\* ------------------------------------------------------ program constants
FifteenMinutes == 15
NoReservation == 0
\* A query parameter that is absent or empty, and what parse_date returns for a
\* string that is not a date.
NoFilter == 0
NoDate == -1

\* ------------------------------------------------------------ input sets
Users == {"admin", "alice"}
Staff == {"admin"}
Plays == {1, 2}
HallIds == {1, 2}
ShowTimes == {0, 1, 16}
\* <<row, seat>> of a ticket request: the seats of the larger hall, and one request
\* per way of leaving its range.
Places == {<<1, 1>>, <<1, 2>>, <<0, 1>>, <<2, 1>>, <<1, 0>>, <<1, 3>>}
\* The names and titles of catalog requests: one in use (after the first genre or
\* actor), one free where it must be unique, one blank.
HallNames == {"Main Hall", "Studio", ""}
GenreNames == {"Drama", ""}
Titles == {"Play One", "New Play", ""}
FirstNames == {"Brad", ""}
LastNames == {"Pitt", ""}
\* <<rows, seats_in_row>> of a hall request: a hall of one seat, a hall of no row,
\* a hall of a negative number of seats per row.
Sizes == {<<1, 1>>, <<0, 1>>, <<1, -1>>}
CatalogIds == 1 .. MaxCatalog
\* The date parameter of a performance list: absent, the day of the schedule, the
\* day after, not a date.
Dates == {"", "1970-01-01", "1970-01-02", "tomorrow"}
PerformanceIds == 1 .. MaxPerformances
TicketIds == 1 .. MaxTickets

VARIABLES
    now,            \* timezone.now(), minutes
    halls,          \* TheatreHall rows: id -> [name, rows, seats_in_row]
    catalog,        \* Actor, Genre and Play rows: [actors, genres, plays]
    performances,   \* Performance rows
    tickets,        \* Ticket rows
    reservations,   \* Reservation rows
    calls,          \* per caller: the reservation request between its two steps
    resp            \* the response being sent, NoResponse between requests

vars == <<now, halls, catalog, performances, tickets, reservations, calls, resp>>
Store == <<halls, catalog, performances, tickets, reservations>>

\* ------------------------------------------------------------- the schema
TheatreHall(name, rows, seats_in_row) ==
    [name |-> name, rows |-> rows, seats_in_row |-> seats_in_row]

Actor(id, first_name, last_name) ==
    [id |-> id, first_name |-> first_name, last_name |-> last_name]

Genre(id, name) == [id |-> id, name |-> name]

Play(id, title) == [id |-> id, title |-> title]

Performance(id, play, theatre_hall, show_time) ==
    [id |-> id, play |-> play, theatre_hall |-> theatre_hall, show_time |-> show_time]

Reservation(id, user) == [id |-> id, user |-> user]

Ticket(id, row, seat, performance, reservation) ==
    [id |-> id, row |-> row, seat |-> seat,
     performance |-> performance, reservation |-> reservation]

\* attached: the tickets a reservation request had saved when it ended, or the
\* tickets a delete took with the reservation or performance.  results: the ids
\* a list returns.
Response(op, status, errors, attached) ==
    [op |-> op, status |-> status, errors |-> errors, attached |-> attached, results |-> {}]

\* The response of a list or retrieve: the ids of the rows serialized.
ListResponse(op, results) == [Response(op, "ok", {}, 0) EXCEPT !.results = results]

NoResponse == Response("none", "none", {}, 0)

IdleCall == [pc |-> "idle", user |-> "", performance |-> Performance(0, 0, 0, 0), tickets |-> {}]

\* ---------------------------------------------------------------- lookups
Ids(rows) == {r.id : r \in rows}
ById(rows, id) == CHOOSE r \in rows : r.id = id
NextId(rows) == IF rows = {} THEN 1 ELSE 1 + CHOOSE i \in Ids(rows) : \A j \in Ids(rows) : j <= i

\* ------------------------------------------------------------ permissions
\* A permission that lets every authenticated caller write.
has_permission_authenticated(user, safe_method) == TRUE

\* IsAdminAllORAuthenticatedORReadOnly.has_permission for an authenticated caller.
has_permission(user, safe_method) == safe_method \/ user \in Staff

\* The permission classes of a viewset that names none: the project's default,
\* staff for writes and any authenticated caller for reads.
DEFAULT_PERMISSION_CLASSES(user, safe_method) == has_permission(user, safe_method)

\* ------------------------------------------------------------ Performance
\* Performance.save refusing the present moment as well as the past.
PerformanceSaveErrors_strict(p, t, rows) ==
    IF p.show_time <= t THEN {"past_time"}
    ELSE IF \E q \in rows : /\ q.id # p.id
                            /\ q.play = p.play
                            /\ q.theatre_hall = p.theatre_hall
                            /\ q.show_time = p.show_time
         THEN {"conflict"}
         ELSE {}

\* The error Performance.save raises, then the one the unique_performance constraint
\* of the table raises; {} when the row is written.
PerformanceSaveErrors(p, t, rows) ==
    IF p.show_time < t THEN {"past_time"}
    ELSE IF \E q \in rows : /\ q.id # p.id
                            /\ q.play = p.play
                            /\ q.theatre_hall = p.theatre_hall
                            /\ q.show_time = p.show_time
         THEN {"conflict"}
         ELSE {}

\* ----------------------------------------------------------------- Ticket
\* validate_seat with the upper bound of the seat left out.
validate_seat_row_only(seat, row, hall) ==
    IF ~(1 <= row /\ row <= hall.rows) THEN {"row"}
    ELSE IF ~(1 <= seat) THEN {"seat"}
    ELSE {}

\* Ticket.validate_seat: the first offending field, row before seat.
validate_seat(seat, row, hall) ==
    IF ~(1 <= row /\ row <= hall.rows) THEN {"row"}
    ELSE IF ~(1 <= seat /\ seat <= hall.seats_in_row) THEN {"seat"}
    ELSE {}

\* Ticket.clean on a ticket whose performance attribute is the object perf.
clean(ticket, perf, t) ==
    IF perf.show_time - t < FifteenMinutes THEN {"too_late"}
    ELSE IF validate_seat(ticket.seat, ticket.row, halls[perf.theatre_hall]) # {} THEN {"range"}
    ELSE {}

\* The foreign keys full_clean looks up (clean_fields).
clean_fields(ticket, perfRows, resRows) ==
    IF \/ ticket.performance \notin Ids(perfRows)
       \/ (ticket.reservation # NoReservation /\ ticket.reservation \notin Ids(resRows))
    THEN {"not_found"} ELSE {}

\* Ticket without its unique_ticket constraint.
validate_unique_absent(ticket, ticketRows, errors) == {}

\* The unique_ticket constraint as full_clean checks it: skipped when one of its
\* fields already failed, and the instance's own row does not count.  The table
\* enforces the same constraint on the write that follows.
validate_unique(ticket, ticketRows, errors) ==
    IF errors \cap {"range", "not_found"} # {} THEN {}
    ELSE IF \E o \in ticketRows : /\ o.id # ticket.id
                                  /\ o.performance = ticket.performance
                                  /\ o.row = ticket.row
                                  /\ o.seat = ticket.seat
         THEN {"conflict"}
         ELSE {}

\* Model.full_clean: the errors of the three stages together.
full_clean(ticket, perf, t, ticketRows, perfRows, resRows) ==
    LET e1 == clean_fields(ticket, perfRows, resRows) \cup clean(ticket, perf, t)
    IN  e1 \cup validate_unique(ticket, ticketRows, e1)

\* Ticket.save: full_clean, then the row is written (inserted, or replaced by id).
TicketSave(ticket, ticketRows) == {o \in ticketRows : o.id # ticket.id} \cup {ticket}

\* ------------------------------------------------------------------- Init
\* The halls of the catalog: a hall of one row of two seats and a hall of one seat.
Halls == (1 :> TheatreHall("Main Hall", 1, 2)) @@ (2 :> TheatreHall("Small Hall", 1, 1))

\* The plays of the schedule; no actor or genre is needed for a performance.
Catalog == [actors |-> {}, genres |-> {}, plays |-> {Play(1, "Play One"), Play(2, "Play Two")}]

\* Two performances of two plays in hall 1, both created at time 0 for time 16.
Schedule == {Performance(1, 1, 1, 16), Performance(2, 2, 1, 16)}

InitSchedule ==
    /\ now = 0
    /\ halls = Halls
    /\ catalog = Catalog
    /\ performances = {}
    /\ tickets = {}
    /\ reservations = {}
    /\ calls = [u \in Users |-> IdleCall]
    /\ resp = NoResponse

Init ==
    /\ now = 0
    /\ halls = Halls
    /\ catalog = Catalog
    /\ performances = Schedule
    /\ tickets = {}
    /\ reservations = {}
    /\ calls = [u \in Users |-> IdleCall]
    /\ resp = NoResponse

\* The schedule with both seats of performance 1 ticketed and the two tickets in
\* one reservation of the staff user.
InitCancel ==
    /\ now = 0
    /\ halls = Halls
    /\ catalog = Catalog
    /\ performances = Schedule
    /\ tickets = {Ticket(1, 1, 1, 1, 1), Ticket(2, 1, 2, 1, 1)}
    /\ reservations = {Reservation(1, "admin")}
    /\ calls = [u \in Users |-> IdleCall]
    /\ resp = NoResponse

\* ---------------------------------------------------------------- actions
\* The clock advances.
Tick ==
    /\ resp = NoResponse
    /\ now < MaxTime
    /\ now' = now + 1
    /\ UNCHANGED <<halls, catalog, performances, tickets, reservations, calls, resp>>

\* The response leaves; the next request can be handled.
Respond ==
    /\ resp # NoResponse
    /\ resp' = NoResponse
    /\ UNCHANGED <<now, halls, catalog, performances, tickets, reservations, calls>>

\* POST /performances/
CreatePerformance(caller, play, hall, show_time) ==
    LET p == Performance(NextId(performances), play, hall, show_time)
        errors == IF ~has_permission(caller, FALSE) THEN {"forbidden"}
                  ELSE IF play \notin Ids(catalog.plays) \/ hall \notin DOMAIN halls
                  THEN {"not_found"}
                  ELSE PerformanceSaveErrors(p, now, performances)
    IN  /\ resp = NoResponse
        /\ NextId(performances) <= MaxPerformances
        /\ IF errors = {}
           THEN /\ performances' = performances \cup {p}
                /\ resp' = Response("create_performance", "ok", {}, 0)
           ELSE /\ performances' = performances
                /\ resp' = Response("create_performance", "error", errors, 0)
        /\ UNCHANGED <<now, halls, catalog, tickets, reservations, calls>>

\* PUT /performances/{id}/
UpdatePerformance(caller, id, play, hall, show_time) ==
    LET p == Performance(id, play, hall, show_time)
        errors == IF ~has_permission(caller, FALSE) THEN {"forbidden"}
                  ELSE IF id \notin Ids(performances) THEN {"not_found"}
                  ELSE IF play \notin Ids(catalog.plays) \/ hall \notin DOMAIN halls
                  THEN {"not_found"}
                  ELSE PerformanceSaveErrors(p, now, performances)
    IN  /\ resp = NoResponse
        /\ IF errors = {}
           THEN /\ performances' = {q \in performances : q.id # id} \cup {p}
                /\ resp' = Response("update_performance", "ok", {}, 0)
           ELSE /\ performances' = performances
                /\ resp' = Response("update_performance", "error", errors, 0)
        /\ UNCHANGED <<now, halls, catalog, tickets, reservations, calls>>

\* POST /tickets/
CreateTicket(caller, row, seat, performance) ==
    LET ticket == Ticket(NextId(tickets), row, seat, performance, NoReservation)
        errors == IF ~has_permission(caller, FALSE) THEN {"forbidden"}
                  ELSE IF performance \notin Ids(performances) THEN {"not_found"}
                  ELSE full_clean(ticket, ById(performances, performance), now,
                                  tickets, performances, reservations)
    IN  /\ resp = NoResponse
        /\ NextId(tickets) <= MaxTickets
        /\ IF errors = {}
           THEN /\ tickets' = TicketSave(ticket, tickets)
                /\ resp' = Response("create_ticket", "ok", {}, 0)
           ELSE /\ tickets' = tickets
                /\ resp' = Response("create_ticket", "error", errors, 0)
        /\ UNCHANGED <<now, halls, catalog, performances, reservations, calls>>

\* TicketViewSet.get_queryset: the tickets whose reservation belongs to the caller.
TicketQueryset(user) ==
    {t \in tickets : \E r \in reservations : r.id = t.reservation /\ r.user = user}

\* PUT /tickets/{id}/
UpdateTicket(caller, id, row, seat, performance) ==
    LET errors == IF ~has_permission(caller, FALSE) THEN {"forbidden"}
                  ELSE IF id \notin Ids(TicketQueryset(caller)) THEN {"not_found"}
                  ELSE IF performance \notin Ids(performances) THEN {"not_found"}
                  ELSE full_clean(Ticket(id, row, seat, performance, ById(tickets, id).reservation),
                                  ById(performances, performance), now,
                                  tickets, performances, reservations)
    IN  /\ resp = NoResponse
        /\ IF errors = {}
           THEN /\ tickets' = TicketSave(Ticket(id, row, seat, performance,
                                                ById(tickets, id).reservation), tickets)
                /\ resp' = Response("update_ticket", "ok", {}, 0)
           ELSE /\ tickets' = tickets
                /\ resp' = Response("update_ticket", "error", errors, 0)
        /\ UNCHANGED <<now, halls, catalog, performances, reservations, calls>>

\* ------------------------------------------------- reservation transaction
\* ReservationSerializer.create up to the transaction: the serializer's lookups of
\* the performance and the tickets, the ticket query and the performance check.
ReservationReadErrors(performance, ticket_ids) ==
    IF performance \notin Ids(performances) \/ ~(ticket_ids \subseteq Ids(tickets))
    THEN {"not_found"}
    ELSE IF \E t \in tickets : t.id \in ticket_ids /\ t.performance # performance
         THEN {"mismatch"}
         ELSE {}

\* The reservation created for the user the body names.
SaveUser_from_payload(request_user, payload_user) == payload_user

\* serializer.save(user=self.request.user) and create's own request.user: the user
\* the reservation is created for, given the caller and the "user" of the body.
SaveUser(request_user, payload_user) == request_user

\* POST /reservations/, first half.
ReservationRead(caller, payload_user, performance, ticket_ids) ==
    LET errors == ReservationReadErrors(performance, ticket_ids)
    IN  /\ resp = NoResponse
        /\ calls[caller].pc = "idle"
        /\ NextId(reservations) <= MaxReservations
        /\ IF errors = {}
           THEN /\ calls' = [calls EXCEPT ![caller] =
                                [pc |-> "read", user |-> SaveUser(caller, payload_user),
                                 performance |-> ById(performances, performance),
                                 tickets |-> {t \in tickets : t.id \in ticket_ids}]]
                /\ resp' = resp
           ELSE /\ calls' = calls
                /\ resp' = Response("create_reservation", "error", errors, 0)
        /\ UNCHANGED <<now, halls, catalog, performances, tickets, reservations>>

\* The loop of the transaction over the tickets read, in id order, on the rows as
\* the transaction sees them: each ticket is pointed at the reservation and at the
\* performance object of the request, cleaned and saved.  The first error stops it.
RECURSIVE AttachTickets(_, _, _, _, _, _)
AttachTickets(todo, reservation, perf, t, ticketRows, attached) ==
    IF todo = {} THEN [errors |-> {}, tickets |-> ticketRows, attached |-> attached]
    ELSE LET first == CHOOSE x \in todo : \A y \in todo : x.id <= y.id
             ticket == [first EXCEPT !.reservation = reservation.id,
                                     !.performance = perf.id]
             errors == full_clean(ticket, perf, t, ticketRows, performances,
                                  reservations \cup {reservation})
         IN  IF errors # {}
             THEN [errors |-> errors, tickets |-> ticketRows, attached |-> attached]
             ELSE AttachTickets(todo \ {first}, reservation, perf, t,
                                TicketSave(ticket, ticketRows), attached + 1)

\* The loop without the transaction around it: what was written stays written.
Atomic_no_rollback(before, after, errors) == after

\* What transaction.atomic() leaves behind: the transaction's rows when the block
\* ended normally, the rows it started from when an exception left it.
Atomic(before, after, errors) == IF errors = {} THEN after ELSE before

\* POST /reservations/, second half: the transaction.
ReservationCommit(caller) ==
    LET call == calls[caller]
        reservation == Reservation(NextId(reservations), call.user)
        done == AttachTickets(call.tickets, reservation, call.performance, now, tickets, 0)
    IN  /\ resp = NoResponse
        /\ call.pc = "read"
        /\ NextId(reservations) <= MaxReservations
        /\ reservations' = Atomic(reservations, reservations \cup {reservation}, done.errors)
        /\ tickets' = Atomic(tickets, done.tickets, done.errors)
        /\ calls' = [calls EXCEPT ![caller] = IdleCall]
        /\ resp' = Response("create_reservation",
                            IF done.errors = {} THEN "ok" ELSE "error",
                            done.errors, done.attached)
        /\ UNCHANGED <<now, halls, catalog, performances>>

\* ------------------------------------------------------- performance list
\* The fields of TheatreHall a query can name.  capacity is a property of the
\* class, not a field.
TheatreHallFields == {"id", "name", "rows", "seats_in_row"}

\* The annotate of the list: F("theatre_hall__capacity") is resolved when the
\* queryset is built, and a name that is no field raises FieldError there.
AnnotateErrors(field) == IF field \in TheatreHallFields THEN {} ELSE {"server_error"}

\* dateparse.parse_date, in days since the start of the clock.
parse_date(date) ==
    CASE date = "1970-01-01" -> 0
      [] date = "1970-01-02" -> 1
      [] OTHER -> NoDate

\* GET /performances/?play=&theatre_hall=&date=
ListPerformances(caller, play_id, theatre_hall_id, date) ==
    LET byPlay == IF play_id # NoFilter
                  THEN {p \in performances : p.play = play_id} ELSE performances
        byHall == IF theatre_hall_id # NoFilter
                  THEN {p \in byPlay : p.theatre_hall = theatre_hall_id} ELSE byPlay
    IN  /\ resp = NoResponse
        /\ resp' = IF ~has_permission(caller, TRUE)
                   THEN Response("list_performances", "error", {"forbidden"}, 0)
                   ELSE IF AnnotateErrors("capacity") # {}
                   THEN Response("list_performances", "error", AnnotateErrors("capacity"), 0)
                   ELSE IF date # "" /\ parse_date(date) = NoDate
                   THEN Response("list_performances", "error", {"invalid"}, 0)
                   ELSE ListResponse("list_performances", Ids(byHall))
        /\ UNCHANGED <<now, halls, catalog, performances, tickets, reservations, calls>>

\* ---------------------------------------------------------------- catalog
\* The errors of a catalog serializer for a name that must be given and, when
\* unique is set, not in use.
NameErrors(name, used) ==
    IF name = "" THEN {"invalid"}
    ELSE IF name \in used THEN {"conflict"}
    ELSE {}

\* POST /theatre_halls/: rows and seats_in_row are plain integer fields.
CreateTheatreHall(caller, name, rows, seats_in_row) ==
    LET id == 1 + Cardinality(DOMAIN halls)
        errors == IF ~DEFAULT_PERMISSION_CLASSES(caller, FALSE) THEN {"forbidden"}
                  ELSE NameErrors(name, {halls[h].name : h \in DOMAIN halls})
    IN  /\ resp = NoResponse
        /\ id <= MaxCatalog
        /\ IF errors = {}
           THEN /\ halls' = halls @@ (id :> TheatreHall(name, rows, seats_in_row))
                /\ resp' = Response("create_theatre_hall", "ok", {}, 0)
           ELSE /\ halls' = halls
                /\ resp' = Response("create_theatre_hall", "error", errors, 0)
        /\ UNCHANGED <<now, catalog, performances, tickets, reservations, calls>>

\* POST /actors/
CreateActor(caller, first_name, last_name) ==
    LET id == NextId(catalog.actors)
        errors == IF ~DEFAULT_PERMISSION_CLASSES(caller, FALSE) THEN {"forbidden"}
                  ELSE NameErrors(first_name, {}) \cup NameErrors(last_name, {})
    IN  /\ resp = NoResponse
        /\ id <= MaxCatalog
        /\ IF errors = {}
           THEN /\ catalog' = [catalog EXCEPT
                                  !.actors = @ \cup {Actor(id, first_name, last_name)}]
                /\ resp' = Response("create_actor", "ok", {}, 0)
           ELSE /\ catalog' = catalog
                /\ resp' = Response("create_actor", "error", errors, 0)
        /\ UNCHANGED <<now, halls, performances, tickets, reservations, calls>>

\* POST /genre/
CreateGenre(caller, name) ==
    LET id == NextId(catalog.genres)
        errors == IF ~DEFAULT_PERMISSION_CLASSES(caller, FALSE) THEN {"forbidden"}
                  ELSE NameErrors(name, {g.name : g \in catalog.genres})
    IN  /\ resp = NoResponse
        /\ id <= MaxCatalog
        /\ IF errors = {}
           THEN /\ catalog' = [catalog EXCEPT !.genres = @ \cup {Genre(id, name)}]
                /\ resp' = Response("create_genre", "ok", {}, 0)
           ELSE /\ catalog' = catalog
                /\ resp' = Response("create_genre", "error", errors, 0)
        /\ UNCHANGED <<now, halls, performances, tickets, reservations, calls>>

\* POST /plays/ with a description and a duration; actors and genres are read-only.
CreatePlay(caller, title) ==
    LET id == NextId(catalog.plays)
        errors == IF ~DEFAULT_PERMISSION_CLASSES(caller, FALSE) THEN {"forbidden"}
                  ELSE NameErrors(title, {q.title : q \in catalog.plays})
    IN  /\ resp = NoResponse
        /\ id <= MaxCatalog
        /\ IF errors = {}
           THEN /\ catalog' = [catalog EXCEPT !.plays = @ \cup {Play(id, title)}]
                /\ resp' = Response("create_play", "ok", {}, 0)
           ELSE /\ catalog' = catalog
                /\ resp' = Response("create_play", "error", errors, 0)
        /\ UNCHANGED <<now, halls, performances, tickets, reservations, calls>>

\* The catalog tables a list can ask for.
CatalogTables == {"theatre_halls", "actors", "genre", "plays"}

\* GET /theatre_halls/, /actors/, /genre/, /plays/
ListCatalog(caller, table) ==
    LET rows == CASE table = "theatre_halls" -> DOMAIN halls
                  [] table = "actors" -> Ids(catalog.actors)
                  [] table = "genre" -> Ids(catalog.genres)
                  [] table = "plays" -> Ids(catalog.plays)
    IN  /\ resp = NoResponse
        /\ resp' = IF DEFAULT_PERMISSION_CLASSES(caller, TRUE)
                   THEN ListResponse("list_" \o table, rows)
                   ELSE Response("list_" \o table, "error", {"forbidden"}, 0)
        /\ UNCHANGED <<now, halls, catalog, performances, tickets, reservations, calls>>

\* GET /performances/{id}/: the performance with its taken places.
RetrievePerformance(caller, id) ==
    /\ resp = NoResponse
    /\ resp' = IF ~has_permission(caller, TRUE)
               THEN Response("retrieve_performance", "error", {"forbidden"}, 0)
               ELSE IF id \notin Ids(performances)
               THEN Response("retrieve_performance", "error", {"not_found"}, 0)
               ELSE ListResponse("retrieve_performance",
                                 {<<t.row, t.seat>> : t \in {o \in tickets : o.performance = id}})
    /\ UNCHANGED <<now, halls, catalog, performances, tickets, reservations, calls>>

\* -------------------------------------------------------- cancel and delete
\* The reservations of every user.
ReservationQueryset_all(user) == reservations

\* ReservationViewSet.get_queryset: the reservations of the caller.
ReservationQueryset(user) == {r \in reservations : r.user = user}

\* A foreign key that leaves the referring tickets in place.
on_delete_DO_NOTHING(ticketRows, field, id) == ticketRows

\* on_delete=models.CASCADE of Ticket.performance and Ticket.reservation: the
\* tickets left when the row with this id goes.
on_delete_CASCADE(ticketRows, field, id) == {t \in ticketRows : t[field] # id}

\* A cancel that takes every reservation of the owner.
perform_destroy_all(rows, instance) == {r \in rows : r.user # instance.user}

\* ReservationViewSet.perform_destroy: the reservations left by instance.delete().
perform_destroy(rows, instance) == rows \ {instance}

\* DELETE /reservations/{id}/
DestroyReservation(caller, id) ==
    LET found == id \in Ids(ReservationQueryset(caller))
        left == on_delete_CASCADE(tickets, "reservation", id)
    IN  /\ resp = NoResponse
        /\ IF found
           THEN /\ reservations' = perform_destroy(reservations, ById(reservations, id))
                /\ tickets' = left
                /\ resp' = Response("delete_reservation", "ok", {},
                                    Cardinality(tickets \ left))
           ELSE /\ reservations' = reservations
                /\ tickets' = tickets
                /\ resp' = Response("delete_reservation", "error", {"not_found"}, 0)
        /\ UNCHANGED <<now, halls, catalog, performances, calls>>

\* GET /reservations/ (the first page; the bounds stay under page_size)
ListReservations(caller) ==
    /\ resp = NoResponse
    /\ resp' = ListResponse("list_reservations", Ids(ReservationQueryset(caller)))
    /\ UNCHANGED <<now, halls, catalog, performances, tickets, reservations, calls>>

\* GET /tickets/
ListTickets(caller) ==
    /\ resp = NoResponse
    /\ resp' = IF has_permission(caller, TRUE)
               THEN ListResponse("list_tickets", Ids(TicketQueryset(caller)))
               ELSE Response("list_tickets", "error", {"forbidden"}, 0)
    /\ UNCHANGED <<now, halls, catalog, performances, tickets, reservations, calls>>

\* GET /tickets/{id}/
RetrieveTicket(caller, id) ==
    /\ resp = NoResponse
    /\ resp' = IF ~has_permission(caller, TRUE)
               THEN Response("retrieve_ticket", "error", {"forbidden"}, 0)
               ELSE IF id \notin Ids(TicketQueryset(caller))
               THEN Response("retrieve_ticket", "error", {"not_found"}, 0)
               ELSE ListResponse("retrieve_ticket", {id})
    /\ UNCHANGED <<now, halls, catalog, performances, tickets, reservations, calls>>

\* DELETE /tickets/{id}/
DestroyTicket(caller, id) ==
    LET errors == IF ~has_permission(caller, FALSE) THEN {"forbidden"}
                  ELSE IF id \notin Ids(TicketQueryset(caller)) THEN {"not_found"}
                  ELSE {}
    IN  /\ resp = NoResponse
        /\ IF errors = {}
           THEN /\ tickets' = {t \in tickets : t.id # id}
                /\ resp' = Response("delete_ticket", "ok", {}, 0)
           ELSE /\ tickets' = tickets
                /\ resp' = Response("delete_ticket", "error", errors, 0)
        /\ UNCHANGED <<now, halls, catalog, performances, reservations, calls>>

\* DELETE /performances/{id}/
DestroyPerformance(caller, id) ==
    LET errors == IF ~has_permission(caller, FALSE) THEN {"forbidden"}
                  ELSE IF id \notin Ids(performances) THEN {"not_found"}
                  ELSE {}
        left == on_delete_CASCADE(tickets, "performance", id)
    IN  /\ resp = NoResponse
        /\ IF errors = {}
           THEN /\ performances' = {p \in performances : p.id # id}
                /\ tickets' = left
                /\ resp' = Response("delete_performance", "ok", {},
                                    Cardinality(tickets \ left))
           ELSE /\ performances' = performances
                /\ tickets' = tickets
                /\ resp' = Response("delete_performance", "error", errors, 0)
        /\ UNCHANGED <<now, halls, catalog, reservations, calls>>

\* ------------------------------------------------------------ specifications
\* The performance endpoints and the clock.
NextSchedule ==
    \/ Tick
    \/ Respond
    \/ \E caller \in Users, play \in Plays, hall \in HallIds, show_time \in ShowTimes :
          CreatePerformance(caller, play, hall, show_time)
    \/ \E caller \in Users, id \in PerformanceIds, play \in Plays, hall \in HallIds,
          show_time \in ShowTimes :
          UpdatePerformance(caller, id, play, hall, show_time)
    \/ \E caller \in Users, play \in Plays \cup {NoFilter}, hall \in HallIds \cup {NoFilter},
          date \in Dates :
          ListPerformances(caller, play, hall, date)

SpecSchedule == InitSchedule /\ [][NextSchedule]_vars

\* The ticket and reservation endpoints and the clock; both users book.
Next ==
    \/ Tick
    \/ Respond
    \/ \E caller \in Users, place \in Places, performance \in PerformanceIds :
          CreateTicket(caller, place[1], place[2], performance)
    \/ \E caller \in Users, id \in TicketIds, place \in Places,
          performance \in PerformanceIds :
          UpdateTicket(caller, id, place[1], place[2], performance)
    \/ \E caller \in Users, payload_user \in Users, performance \in PerformanceIds,
          ticket_ids \in SUBSET TicketIds :
          ReservationRead(caller, payload_user, performance, ticket_ids)
    \/ \E caller \in Users : ReservationCommit(caller)

Spec == Init /\ [][Next]_vars

\* Ticket creation and one client's reservations, the clock, and
\* PATCH /performances/{id}/ with a theatre_hall.
NextHall ==
    \/ Tick
    \/ Respond
    \/ \E caller \in Users, p \in performances, hall \in HallIds :
          UpdatePerformance(caller, p.id, p.play, hall, p.show_time)
    \/ \E caller \in Users, place \in Places, performance \in PerformanceIds :
          CreateTicket(caller, place[1], place[2], performance)
    \/ \E payload_user \in Users, performance \in PerformanceIds,
          ticket_ids \in SUBSET TicketIds :
          ReservationRead("alice", payload_user, performance, ticket_ids)
    \/ ReservationCommit("alice")

SpecHall == Init /\ [][NextHall]_vars

\* From a reservation of the staff user: ticket creation, one client's
\* reservations, and the deletes of a reservation (by its owner or by the other
\* user), of a ticket and of a performance; the lists of both users.
NextCancel ==
    \/ Respond
    \/ \E caller \in Users, place \in Places, performance \in PerformanceIds :
          CreateTicket(caller, place[1], place[2], performance)
    \/ \E payload_user \in Users, performance \in PerformanceIds,
          ticket_ids \in SUBSET TicketIds :
          ReservationRead("alice", payload_user, performance, ticket_ids)
    \/ ReservationCommit("alice")
    \/ \E caller \in Users, id \in 1 .. MaxReservations : DestroyReservation(caller, id)
    \/ \E caller \in Users : ListReservations(caller)
    \/ \E caller \in Users : ListTickets(caller)
    \/ \E caller \in Users, id \in TicketIds : RetrieveTicket(caller, id)
    \/ \E caller \in Users, id \in TicketIds : DestroyTicket(caller, id)
    \/ \E caller \in Users, id \in PerformanceIds : DestroyPerformance(caller, id)

SpecCancel == InitCancel /\ [][NextCancel]_vars

\* The catalog endpoints and the performance endpoints, for both users.
NextCatalog ==
    \/ Respond
    \/ \E caller \in Users, name \in HallNames, size \in Sizes :
          CreateTheatreHall(caller, name, size[1], size[2])
    \/ \E caller \in Users, first_name \in FirstNames, last_name \in LastNames :
          CreateActor(caller, first_name, last_name)
    \/ \E caller \in Users, name \in GenreNames : CreateGenre(caller, name)
    \/ \E caller \in Users, title \in Titles : CreatePlay(caller, title)
    \/ \E caller \in Users, table \in CatalogTables : ListCatalog(caller, table)
    \/ \E caller \in Users, play \in CatalogIds :
          CreatePerformance(caller, play, 1, 16)
    \/ \E caller \in Users, p \in performances, hall \in CatalogIds :
          UpdatePerformance(caller, p.id, p.play, hall, p.show_time)
    \/ \E caller \in Users, id \in PerformanceIds : RetrievePerformance(caller, id)
    \/ \E caller \in Users, id \in PerformanceIds : DestroyPerformance(caller, id)

SpecCatalog == Init /\ [][NextCatalog]_vars

\* ------------------------------------------------------------------ claims
\* A reservation request of user u is answered in this step.
Answered(u) == calls[u].pc = "read" /\ calls'[u].pc = "idle"

\* The current row of the ticket a request read as t.
Stored(t) == ById(tickets, t.id)

\* C1: in every reachable state no two distinct tickets of one performance have
\* the same (row, seat).
C1_SeatsUnique ==
    \A t1 \in tickets, t2 \in tickets :
        (t1.id # t2.id /\ t1.performance = t2.performance)
            => <<t1.row, t1.seat>> # <<t2.row, t2.seat>>

\* Two tickets share a performance and an update that would have put one on the
\* other's seat has just been refused.
C1_Witness ==
    /\ \E t1 \in tickets, t2 \in tickets : t1.id # t2.id /\ t1.performance = t2.performance
    /\ resp.op = "update_ticket"
    /\ "conflict" \in resp.errors

\* C2: a reservation request that fails, at the performance check or at a ticket
\* of the transaction, leaves the store as it was.
C2_AllOrNothing ==
    [][(resp'.op = "create_reservation" /\ resp'.status = "error") => Store' = Store]_vars

\* A reservation request has failed at its second ticket, after the first was saved.
C2_Witness ==
    /\ resp.op = "create_reservation"
    /\ resp.status = "error"
    /\ resp.attached >= 1

\* C3: a reservation request that succeeds adds exactly one reservation, owned by
\* the caller, and every ticket it asked for references that reservation.
C3_ReservationCreated ==
    [][\A u \in Users :
          (Answered(u) /\ resp'.status = "ok") =>
              \E r \in reservations' :
                  /\ r.id \notin Ids(reservations)
                  /\ reservations' = reservations \cup {r}
                  /\ r.user = u
                  /\ \A t \in calls[u].tickets :
                        \E n \in tickets' : n.id = t.id /\ n.reservation = r.id]_vars

\* A request for two tickets has succeeded and both reference one reservation.
C3_Witness ==
    /\ resp.op = "create_reservation"
    /\ resp.status = "ok"
    /\ resp.attached = 2
    /\ \E r \in reservations : \A t \in tickets : t.reservation = r.id

\* C4: a reservation request that read one of its tickets as already attached to
\* a reservation fails, and the ticket stays attached to that reservation.
C4_ReservedTicketRefused ==
    [][\A u \in Users :
          (Answered(u) /\ \E t \in calls[u].tickets : t.reservation # NoReservation) =>
              /\ resp'.status = "error"
              /\ \A t \in calls[u].tickets :
                    t.reservation # NoReservation =>
                        \E n \in tickets' : n.id = t.id /\ n.reservation = t.reservation]_vars

\* C5: a reservation request that read a ticket as free and is answered after
\* another user's reservation took that ticket fails with a conflict and leaves
\* the store as it was.
C5_RaceHasOneWinner ==
    [][\A u \in Users :
          (/\ Answered(u)
           /\ \E t \in calls[u].tickets :
                 /\ t.reservation = NoReservation
                 /\ \E r \in reservations : r.id = Stored(t).reservation /\ r.user # u)
          => (/\ resp'.status = "error"
              /\ "conflict" \in resp'.errors
              /\ Store' = Store)]_vars

\* C6: in every reachable state the tickets attached to one reservation belong to
\* one performance.
C6_OnePerformancePerReservation ==
    \A t1 \in tickets, t2 \in tickets :
        (t1.reservation # NoReservation /\ t1.reservation = t2.reservation)
            => t1.performance = t2.performance

\* The ticket's row and seat lie in the hall of its performance.
InHall(row, seat, performance) ==
    LET hall == halls[ById(performances, performance).theatre_hall]
    IN  1 <= row /\ row <= hall.rows /\ 1 <= seat /\ seat <= hall.seats_in_row

\* C7: in every reachable state every ticket's row and seat lie in the hall of
\* its performance.
C7_SeatsInRange == \A t \in tickets : InHall(t.row, t.seat, t.performance)

\* Some ticket of the performance is on this row and seat.
Occupied(row, seat, performance) ==
    \E o \in tickets : o.performance = performance /\ o.row = row /\ o.seat = seat

\* The performance is at least fifteen minutes away.
InTime(performance) == ById(performances, performance).show_time - now >= FifteenMinutes

\* The request stored exactly one new ticket, with the values asked for.
TicketStored(row, seat, performance) ==
    \E n \in tickets' :
        /\ n.id \notin Ids(tickets)
        /\ tickets' = tickets \cup {n}
        /\ n.row = row /\ n.seat = seat /\ n.performance = performance

\* C8 as claimed: a staff caller's ticket for an occupied seat fails with a
\* conflict, one outside the hall fails with a range error, both leaving the
\* tickets as they were, and a ticket inside the hall for a free seat is stored.
C8_TicketCreation_Claimed ==
    [][\A caller \in Staff, place \in Places, p \in Ids(performances) :
          CreateTicket(caller, place[1], place[2], p) =>
              /\ Occupied(place[1], place[2], p) =>
                    (resp'.status = "error" /\ "conflict" \in resp'.errors /\ tickets' = tickets)
              /\ ~InHall(place[1], place[2], p) =>
                    (resp'.status = "error" /\ "range" \in resp'.errors /\ tickets' = tickets)
              /\ (InHall(place[1], place[2], p) /\ ~Occupied(place[1], place[2], p)) =>
                    (resp'.status = "ok" /\ TicketStored(place[1], place[2], p))]_vars

\* C8 as amended: the fifteen-minute guard of Ticket.clean applies to ticket
\* creation.  A ticket for an occupied seat fails, with a conflict when the seat is
\* inside the hall; a ticket outside the hall fails, with a range error when the
\* performance is at least fifteen minutes away and with a too-late error
\* otherwise; a ticket inside the hall for a free seat is stored when the
\* performance is at least fifteen minutes away and fails with a too-late error
\* otherwise.  Every failure leaves the store as it was.
C8_TicketCreation ==
    [][\A caller \in Staff, place \in Places, p \in Ids(performances) :
          CreateTicket(caller, place[1], place[2], p) =>
              /\ Occupied(place[1], place[2], p) =>
                    /\ resp'.status = "error" /\ Store' = Store
                    /\ InHall(place[1], place[2], p) => "conflict" \in resp'.errors
              /\ ~InHall(place[1], place[2], p) =>
                    /\ resp'.status = "error" /\ Store' = Store
                    /\ InTime(p) => "range" \in resp'.errors
                    /\ ~InTime(p) => "too_late" \in resp'.errors
              /\ (InHall(place[1], place[2], p) /\ ~Occupied(place[1], place[2], p)) =>
                    /\ InTime(p) => (resp'.status = "ok" /\ TicketStored(place[1], place[2], p))
                    /\ ~InTime(p) => /\ resp'.status = "error" /\ Store' = Store
                                     /\ "too_late" \in resp'.errors]_vars

\* A ticket is stored and a second ticket for its seat has just been refused as
\* a conflict.
C8_Witness ==
    /\ tickets # {}
    /\ resp.op = "create_ticket"
    /\ "conflict" \in resp.errors

\* The rule of C9 for a staff request that writes performance p, new or changed: a
\* show_time before the current time is refused as past and nothing is stored; a
\* show_time equal to the current time is not refused as past, and is stored unless
\* another performance has the play, hall and time.
PastTimeRule(p) ==
    /\ p.show_time < now =>
          (resp'.status = "error" /\ "past_time" \in resp'.errors /\ Store' = Store)
    /\ p.show_time = now =>
          /\ "past_time" \notin resp'.errors
          /\ (\A q \in performances :
                 q.id = p.id \/ <<q.play, q.theatre_hall, q.show_time>>
                                   # <<p.play, p.theatre_hall, p.show_time>>)
                => (resp'.status = "ok" /\ p \in performances')

\* C9: creating a performance, or changing one, with a show_time before the
\* current time is rejected as past and stores nothing; a show_time equal to the
\* current time is accepted.
C9_PastTimeRejected ==
    [][\A caller \in Staff, play \in Plays, hall \in HallIds, show_time \in ShowTimes :
          /\ CreatePerformance(caller, play, hall, show_time)
                => PastTimeRule(Performance(NextId(performances), play, hall, show_time))
          /\ \A id \in Ids(performances) :
                UpdatePerformance(caller, id, play, hall, show_time)
                    => PastTimeRule(Performance(id, play, hall, show_time))]_vars

\* The clock has advanced, a performance is stored, and a change of a performance
\* to a time already past has just been refused.
C9_Witness ==
    /\ now > 0
    /\ performances # {}
    /\ resp.op = "update_performance"
    /\ "past_time" \in resp.errors

\* C10: a reservation request answered when the performance is less than
\* fifteen minutes away fails with a too-late error and leaves the store as it
\* was.
C10_TooLateRefused ==
    [][\A u \in Users :
          (/\ Answered(u)
           /\ ById(performances, calls[u].performance.id).show_time - now < FifteenMinutes)
          => (/\ resp'.status = "error"
              /\ "too_late" \in resp'.errors
              /\ Store' = Store)]_vars

\* The seat of ticket t is held by a reserved ticket among rows.
SeatReserved(t, rows) ==
    \E o \in rows : /\ o.performance = t.performance /\ o.row = t.row /\ o.seat = t.seat
                    /\ o.reservation # NoReservation

\* C11: when its owner cancels reservation r, the reservation is gone, no ticket
\* references it and no seat of its tickets is reserved any more, while every
\* other reservation and every ticket attached to another reservation are as
\* they were.
C11_CancelReleases ==
    [][\A caller \in Users, r \in reservations :
          (r.user = caller /\ DestroyReservation(caller, r.id)) =>
              /\ resp'.status = "ok"
              /\ r \notin reservations'
              /\ \A t \in tickets' : t.reservation # r.id
              /\ \A t \in tickets : t.reservation = r.id => ~SeatReserved(t, tickets')
              /\ reservations' = reservations \ {r}
              /\ \A q \in reservations \ {r} :
                    {t \in tickets' : t.reservation = q.id}
                        = {t \in tickets : t.reservation = q.id}]_vars

\* A cancel has taken a ticket with its reservation, and another reservation
\* still has a ticket attached.
C11_Witness ==
    /\ resp.op = "delete_reservation"
    /\ resp.status = "ok"
    /\ resp.attached >= 1
    /\ \E t \in tickets : t.reservation \in Ids(reservations)

\* The stored ticket with this id is attached to a reservation of user u.
TicketOf(id, u) ==
    \E t \in tickets, r \in reservations : t.id = id /\ r.id = t.reservation /\ r.user = u

\* C12: a user's reservation list holds only reservations that user owns, the
\* user's ticket list and ticket retrieve return only tickets whose reservation
\* the user owns, and the user's delete of another user's reservation fails and
\* leaves the store as it was.
C12_OwnerIsolation ==
    [][\A a \in Users :
          /\ ListReservations(a) =>
                \A id \in resp'.results : \E r \in reservations : r.id = id /\ r.user = a
          /\ ListTickets(a) => \A id \in resp'.results : TicketOf(id, a)
          /\ \A id \in TicketIds :
                RetrieveTicket(a, id) => \A i \in resp'.results : TicketOf(i, a)
          /\ \A r \in reservations :
                (r.user # a /\ DestroyReservation(a, r.id)) =>
                    (resp'.status = "error" /\ Store' = Store)]_vars

\* Both users own a reservation, every reservation id is taken, and a delete has
\* just been refused: the caller asked for the other user's reservation.
C12_Witness ==
    /\ Ids(reservations) = 1 .. MaxReservations
    /\ \E r1 \in reservations, r2 \in reservations : r1.user # r2.user
    /\ \E t \in tickets : t.reservation # NoReservation
    /\ resp.op = "delete_reservation"
    /\ resp.status = "error"

\* The request was refused for lack of permission and the store is as it was.
Refused == resp'.status = "error" /\ "forbidden" \in resp'.errors /\ Store' = Store

\* The request was not refused for lack of permission.
Permitted == "forbidden" \notin resp'.errors

\* The outcome of a write of catalog or performance data for this caller.
StaffOnly(caller) == IF caller \in Staff THEN Permitted ELSE Refused

\* C13: creating a hall, an actor, a genre or a play, and creating, changing or
\* deleting a performance, is refused with a permission error that leaves the
\* store as it was when the caller is not staff, and is not refused for lack of
\* permission when the caller is; the reads are permitted to both.  (Each
\* request is looked for among the steps that answer its endpoint.)
C13_StaffOnlyWrites ==
    [][\A caller \in Users :
          /\ resp'.op = "create_theatre_hall" =>
                \A name \in HallNames, size \in Sizes :
                    CreateTheatreHall(caller, name, size[1], size[2]) => StaffOnly(caller)
          /\ resp'.op = "create_actor" =>
                \A first_name \in FirstNames, last_name \in LastNames :
                    CreateActor(caller, first_name, last_name) => StaffOnly(caller)
          /\ resp'.op = "create_genre" =>
                \A name \in GenreNames : CreateGenre(caller, name) => StaffOnly(caller)
          /\ resp'.op = "create_play" =>
                \A title \in Titles : CreatePlay(caller, title) => StaffOnly(caller)
          /\ resp'.op = "create_performance" =>
                \A play \in CatalogIds :
                    CreatePerformance(caller, play, 1, 16) => StaffOnly(caller)
          /\ resp'.op = "update_performance" =>
                \A p \in performances, hall \in CatalogIds :
                    UpdatePerformance(caller, p.id, p.play, hall, p.show_time)
                        => StaffOnly(caller)
          /\ resp'.op = "delete_performance" =>
                \A id \in PerformanceIds : DestroyPerformance(caller, id) => StaffOnly(caller)
          /\ resp'.op \in {"list_" \o table : table \in CatalogTables} =>
                \A table \in CatalogTables : ListCatalog(caller, table) => Permitted
          /\ resp'.op = "retrieve_performance" =>
                \A id \in PerformanceIds : RetrievePerformance(caller, id) => Permitted]_vars

\* The staff has added a play and a hall, and a delete of a performance has just
\* been refused for lack of permission.
C13_Witness ==
    /\ Cardinality(catalog.plays) = MaxCatalog
    /\ Cardinality(DOMAIN halls) = MaxCatalog
    /\ resp.op = "delete_performance"
    /\ "forbidden" \in resp.errors

\* C14: a reservation request with an empty ticket list creates no reservation,
\* and the reservation a request creates has a ticket attached when the request
\* is answered.
C14_NonEmptyTicketList ==
    [][\A u \in Users :
          Answered(u) =>
              /\ calls[u].tickets = {} => reservations' = reservations
              /\ \A r \in reservations' \ reservations :
                    \E t \in tickets' : t.reservation = r.id]_vars

\* The day a show_time falls on, in days since the start of the clock.
ShowDate(show_time) == show_time \div (24 * 60)

\* The performances that match every filter supplied.
Matching(play, hall, date) ==
    {p \in performances : /\ play = NoFilter \/ p.play = play
                          /\ hall = NoFilter \/ p.theatre_hall = hall
                          /\ date = "" \/ ShowDate(p.show_time) = parse_date(date)}

\* C15: a performance list with any of the play, hall and date filters returns
\* exactly the performances that match every filter supplied, and a date that is
\* not a date is answered with a client error.
C15_ListFilters ==
    [][\A caller \in Users, play \in Plays \cup {NoFilter}, hall \in HallIds \cup {NoFilter},
          date \in Dates :
          ListPerformances(caller, play, hall, date) =>
              IF date # "" /\ parse_date(date) = NoDate
              THEN resp'.status = "error" /\ "invalid" \in resp'.errors
              ELSE /\ resp'.status = "ok"
                   /\ resp'.results = Ids(Matching(play, hall, date))]_vars

\* C16: in every reachable state every stored hall has rows > 0 and
\* seats_in_row > 0 (a hall request with a zero or negative size stores nothing).
C16_HallSizesPositive ==
    \A h \in DOMAIN halls : halls[h].rows > 0 /\ halls[h].seats_in_row > 0

\* C17: in every reachable state every ticket references a stored performance
\* and every ticket's reservation, when it has one, is a stored reservation.
C17_ReferentialIntegrity ==
    \A t \in tickets :
        /\ t.performance \in Ids(performances)
        /\ t.reservation # NoReservation => t.reservation \in Ids(reservations)

\* The delete of a performance has taken a ticket with it and a ticket of the
\* other performance is still stored.
C17_Witness ==
    /\ resp.op = "delete_performance"
    /\ resp.status = "ok"
    /\ resp.attached >= 1
    /\ tickets # {}
====
